---- MODULE Spec2Model ----
(***************************************************************************)
(* The onnxruntime installer of ff_disabler: src/install.py (the variant   *)
(* that aborts on a failed install) and src/installer.py (the variant that *)
(* ignores the exit status of the package tool).                           *)
(*                                                                         *)
(* One behaviour is one run of cli(): the state is the host the run sees   *)
(* (platform, search path, CONDA_PREFIX, interpreter version, command      *)
(* line), the position of run() and its locals, the external commands      *)
(* issued so far and what was written to stdout and stderr.                *)
(*                                                                         *)
(* Readings of the source:                                                 *)
(*  - installer.py spells the loop variable of lines 61-64 `**line**`; it  *)
(*    is read as `__line__`, the name install.py uses at lines 85-91.      *)
(*  - the command line always gives --onnxruntime one of the five backend  *)
(*    names; runs with -v/--version or without --onnxruntime are left out. *)
(*  - a step of the run goes from one blocking point (an external command  *)
(*    in flight) to the next; the exit status of a command and the code    *)
(*    that handles it are one step.                                        *)
(*  - the host does not change during a run; requirements.txt, the search  *)
(*    path variable and the filesystem are drawn when the run reads them.  *)
(***************************************************************************)
EXTENDS Integers, Sequences, FiniteSets, TLC

VARIABLES
    variant,             \* which file is run: "install" or "installer"
    platform,            \* is_linux() / is_windows(): "linux", "windows", "other"
    catalog,             \* ONNXRUNTIME_SET as built when the module is loaded
    choice,              \* the value given to --onnxruntime
    skip_conda,          \* --skip-conda
    uv_on_path,          \* whether shutil.which('uv') finds the tool
    conda_on_path,       \* whether shutil.which('conda') finds the tool
    conda_prefix,        \* os.environ['CONDA_PREFIX'], NoPrefix when not set
    version_info,        \* sys.version_info as <<major, minor>>
    pc,                  \* position of the run
    manifest,            \* the lines of requirements.txt once it is open
    idx,                 \* the manifest line the loop is at (1-based)
    calls,               \* the external commands issued, in order, with status
    env_var_name,        \* local of the cuda step
    search_path,         \* os.getenv(env_var_name) split at os.pathsep, as read
    fs,                  \* the probed paths os.path.exists() answers True for
    library_paths,       \* local of the cuda step, before filtering
    valid_library_paths, \* local of the cuda step, after filtering
    stdout,              \* what was written to the output stream, in order
    stderr,              \* what was written to the error stream, in order
    exit_code,           \* Running, or the exit status of the process
    interrupted          \* whether SIGINT ended the run

vars == << variant, platform, catalog, choice, skip_conda, uv_on_path,
           conda_on_path, conda_prefix, version_info, pc, manifest, idx, calls,
           env_var_name, search_path, fs, library_paths, valid_library_paths,
           stdout, stderr, exit_code, interrupted >>

host == << variant, platform, catalog, choice, skip_conda, uv_on_path,
           conda_on_path, conda_prefix, version_info >>

cuda_locals == << env_var_name, search_path, fs, library_paths,
                  valid_library_paths >>

-----------------------------------------------------------------------------
(* Bounds of the model.                                                    *)

\* the size of the input a run reads: the lines of requirements.txt plus the
\* entries of the search-path variable it finds set
MaxInput == 2

-----------------------------------------------------------------------------
(* Inputs.                                                                 *)

Variants == {"install", "installer"}

Platforms == {"linux", "windows", "other"}

AcceleratorChoices == {"default", "cuda", "openvino", "directml", "rocm"}

NoPrefix == "<unset>"

\* values of CONDA_PREFIX when an environment is active
CondaPrefixes == {"/env"}

\* interpreter versions: one outside both ROCm lists, one in install.py's
\* list only, one in both
VersionInfos == { <<3, 9>>, <<3, 11>>, <<3, 12>> }

\* exit_code while the process has not exited
Running == -1

\* A manifest line is its text cut into pieces; " " is whitespace, "#" the
\* comment mark and "onnxruntime" the literal the loop tests for.
ManifestLines ==
    { << "numpy==1.26.0" >>,
      << " ", "tqdm", " " >>,
      << "onnxruntime", "==1.0.0" >>,
      << " ", "onnxruntime", "-gpu" >>,
      << " ", "#", " comment" >>,
      << " " >> }

RECURSIVE SeqsUpTo(_, _)
SeqsUpTo(S, n) ==
    IF n = 0 THEN { << >> }
    ELSE LET shorter == SeqsUpTo(S, n - 1)
         IN  shorter \cup { Append(s, x) : s \in shorter, x \in S }

Manifests == SeqsUpTo(ManifestLines, MaxInput)

-----------------------------------------------------------------------------
(* Module level: the backend catalog.                                      *)

is_linux(p) == p = "linux"

is_windows(p) == p = "windows"

\* dict assignment d[k] = v
DictSet(d, k, v) == [ x \in DOMAIN d \cup {k} |-> IF x = k THEN v ELSE d[x] ]

BaseVersion(v) == IF v = "install" THEN "1.21.1" ELSE "1.22.0"

OpenvinoVersion(v) == IF v = "install" THEN "1.21.0" ELSE "1.22.0"

\* mutant: the cuda, openvino and rocm entries are added on every platform
ONNXRUNTIME_SET_Ungated(v, p) ==
    LET d0 == [ x \in {"default"} |-> << "onnxruntime", BaseVersion(v) >> ]
        d1 == DictSet(DictSet(d0, "cuda", << "onnxruntime-gpu", BaseVersion(v) >>),
                      "openvino", << "onnxruntime-openvino", OpenvinoVersion(v) >>)
        d2 == IF is_windows(p)
              THEN DictSet(d1, "directml", << "onnxruntime-directml", "1.17.3" >>)
              ELSE d1
    IN  DictSet(d2, "rocm", << "onnxruntime-rocm", "1.21.0" >>)

\* ONNXRUNTIME_SET after the module-level if statements
ONNXRUNTIME_SET(v, p) ==
    LET d0 == [ x \in {"default"} |-> << "onnxruntime", BaseVersion(v) >> ]
        d1 == IF is_windows(p) \/ is_linux(p)
              THEN DictSet(DictSet(d0, "cuda", << "onnxruntime-gpu", BaseVersion(v) >>),
                           "openvino", << "onnxruntime-openvino", OpenvinoVersion(v) >>)
              ELSE d0
        d2 == IF is_windows(p)
              THEN DictSet(d1, "directml", << "onnxruntime-directml", "1.17.3" >>)
              ELSE d1
    IN  IF is_linux(p)
        THEN DictSet(d2, "rocm", << "onnxruntime-rocm", "1.21.0" >>)
        ELSE d2

-----------------------------------------------------------------------------
(* Strings and paths.                                                      *)

RECURSIVE JoinStr(_, _)
\* sep.join(parts)
JoinStr(parts, sep) ==
    IF parts = << >> THEN ""
    ELSE IF Len(parts) = 1 THEN parts[1]
    ELSE parts[1] \o sep \o JoinStr(Tail(parts), sep)

\* os.sep and os.pathsep of the platform
Sep(p) == IF is_windows(p) THEN "\\" ELSE "/"

PathSep(p) == IF is_windows(p) THEN ";" ELSE ":"

\* os.path.join(parts...)
PathJoin(p, parts) == JoinStr(parts, Sep(p))

RECURSIVE LStrip(_)
LStrip(line) ==
    IF line # << >> /\ Head(line) = " " THEN LStrip(Tail(line)) ELSE line

RECURSIVE RStrip(_)
RStrip(line) ==
    IF line # << >> /\ line[Len(line)] = " "
    THEN RStrip(SubSeq(line, 1, Len(line) - 1))
    ELSE line

\* mutant: rstrip() in place of strip()
StripOnlyRight(line) == RStrip(line)

\* line.strip()
Strip(line) == RStrip(LStrip(line))

\* s.startswith(piece)
StartsWith(line, piece) == line # << >> /\ Head(line) = piece

\* mutant: the loop does not leave out the runtime package
InstallableNoRuntimeTest(line) ==
    LET l == Strip(line)
    IN  l # << >> /\ ~StartsWith(l, "#")

\* the test of the manifest loop on __line__
Installable(line) ==
    LET l == Strip(line)
    IN  /\ l # << >>
        /\ ~StartsWith(l, "#")
        /\ ~StartsWith(l, "onnxruntime")

\* the text of __line__
LineText(line) == JoinStr(Strip(line), "")

-----------------------------------------------------------------------------
(* The cuda step: library path resolution.                                 *)

\* mutant: the Linux variable on every platform
SearchPathNameLinuxOnly(p) == "LD_LIBRARY_PATH"

SearchPathName(p) ==
    IF is_windows(p) THEN "PATH"
    ELSE IF is_linux(p) THEN "LD_LIBRARY_PATH"
    ELSE ""

\* 'python' + str(major) + '.' + str(minor)
PythonDir(vi) == "python" \o ToString(vi[1]) \o "." \o ToString(vi[2])

\* 'cp' + str(major) + str(minor)
PythonTag(vi) == "cp" \o ToString(vi[1]) \o ToString(vi[2])

\* potential_paths of the platform
PotentialPaths(p, prefix, vi) ==
    IF is_windows(p)
    THEN << PathJoin(p, << prefix, "Lib", "site-packages", "nvidia", "cudnn", "bin" >>),
            PathJoin(p, << prefix, "Lib", "site-packages", "tensorrt_libs" >>),
            PathJoin(p, << prefix, "Library", "bin" >>) >>
    ELSE IF is_linux(p)
    THEN << PathJoin(p, << prefix, "lib" >>),
            PathJoin(p, << prefix, "lib", PythonDir(vi), "site-packages", "tensorrt_libs" >>) >>
    ELSE << >>

Range(s) == { s[i] : i \in DOMAIN s }

\* The value of the search-path variable is kept split at os.pathsep: << >>
\* is the variable not set, << "" >> is the empty string, and both are falsy
\* for `if os.getenv(env_var_name)`.
GetenvSplit(value) ==
    IF value = << >> \/ value = << "" >> THEN << >> ELSE value

\* library_paths before filtering
LibraryPaths(p, prefix, vi, value) ==
    IF is_linux(p) \/ is_windows(p)
    THEN GetenvSplit(value) \o PotentialPaths(p, prefix, vi)
    ELSE << >>

RECURSIVE FilterNoDedup(_, _, _)
\* mutant: the loop without seen_paths
FilterNoDedup(paths, exists, seen) ==
    IF paths = << >> THEN << >>
    ELSE LET path == Head(paths)
         IN  IF path # "" /\ path \in exists
             THEN << path >> \o FilterNoDedup(Tail(paths), exists, seen)
             ELSE FilterNoDedup(Tail(paths), exists, seen)

RECURSIVE FilterPaths(_, _, _)
\* the loop over library_paths with seen_paths
FilterPaths(paths, exists, seen) ==
    IF paths = << >> THEN << >>
    ELSE LET path == Head(paths)
         IN  IF path # "" /\ path \in exists /\ path \notin seen
             THEN << path >> \o FilterPaths(Tail(paths), exists, seen \cup {path})
             ELSE FilterPaths(Tail(paths), exists, seen)

\* valid_library_paths
ValidLibraryPaths(paths, exists) == FilterPaths(paths, exists, {})

\* the entries the search-path variable may hold and the run may probe
PathAtoms(p, prefix, vi) ==
    {"", "/usr/lib"} \cup Range(PotentialPaths(p, prefix, vi))

\* the values of the search-path variable with at most n entries
SearchPathValues(p, prefix, vi, n) ==
    SeqsUpTo(PathAtoms(p, prefix, vi), n)

-----------------------------------------------------------------------------
(* External commands.                                                      *)

\* '--reinstall' in install.py, '--force-reinstall' in installer.py
ReinstallFlag(v) == IF v = "install" THEN "--reinstall" ELSE "--force-reinstall"

\* [uv_executable, 'pip', 'install', target, flag]
UvInstall(v, kind, target) ==
    [ tool |-> "uv", kind |-> kind,
      args |-> << "pip", "install", target, ReinstallFlag(v) >>,
      status |-> "running" ]

\* [conda_executable, 'env', 'config', 'vars', 'set', name=value]
CondaVarsSet(p, name, paths) ==
    [ tool |-> "conda", kind |-> "persist",
      args |-> << "env", "config", "vars", "set",
                  name \o "=" \o JoinStr(paths, PathSep(p)) >>,
      status |-> "running" ]

\* the status of the command in flight becomes st
Settle(cs, st) == [ cs EXCEPT ![Len(cs)].status = st ]

InFlight == calls # << >> /\ calls[Len(calls)].status = "running"

\* mutant: check = True in both files
ChecksStatusAlways(v) == TRUE

\* mutant: subprocess.call in place of subprocess.run(..., check = True)
ChecksStatusNever(v) == FALSE

\* check = True (install.py) against the ignored status of subprocess.call
ChecksStatus(v) == v = "install"

\* mutant: the list of installer.py in both files
RocmTagsWithout311(v) == {"cp310", "cp312"}

\* mutant: installer.py without the wheel for cp312
RocmTagsInstallerOnly310(v) ==
    IF v = "install" THEN {"cp310", "cp311", "cp312"} ELSE {"cp310"}

\* the ABI tags with a wheel at the release path
RocmTags(v) ==
    IF v = "install" THEN {"cp310", "cp311", "cp312"} ELSE {"cp310", "cp312"}

rocm_release_path == "rocm-rel-6.4"

WheelUrl(ver, tag) ==
    "https://repo.radeon.com/rocm/manylinux/" \o rocm_release_path \o "/"
        \o "onnxruntime_rocm-" \o ver \o "-" \o tag \o "-" \o tag
        \o "-linux_x86_64.whl"

\* mutant: the run takes an environment to be active without looking
has_conda_unchecked == TRUE

\* 'CONDA_PREFIX' in os.environ
has_conda == conda_prefix # NoPrefix

Exit(code) ==
    /\ pc' = "exited"
    /\ exit_code' = code

-----------------------------------------------------------------------------
(* The run.                                                                *)

TypeOK ==
    /\ variant \in Variants
    /\ platform \in Platforms
    /\ choice \in AcceleratorChoices
    /\ skip_conda \in BOOLEAN
    /\ uv_on_path \in BOOLEAN
    /\ conda_on_path \in BOOLEAN
    /\ conda_prefix \in CondaPrefixes \cup {NoPrefix}
    /\ version_info \in VersionInfos
    /\ exit_code \in {Running, 0, 1, 2}
    /\ interrupted \in BOOLEAN
    /\ idx \in 0 .. MaxInput + 1

InitHost ==
    /\ platform \in Platforms
    /\ catalog = ONNXRUNTIME_SET(variant, platform)
    /\ choice \in AcceleratorChoices
    /\ skip_conda \in BOOLEAN
    /\ uv_on_path \in BOOLEAN
    /\ conda_on_path \in BOOLEAN
    /\ conda_prefix \in CondaPrefixes \cup {NoPrefix}
    /\ version_info \in VersionInfos

InitRun ==
    /\ pc = "parse"
    /\ manifest = << >>
    /\ idx = 0
    /\ calls = << >>
    /\ env_var_name = ""
    /\ search_path = << >>
    /\ fs = {}
    /\ library_paths = << >>
    /\ valid_library_paths = << >>
    /\ stdout = << >>
    /\ stderr = << >>
    /\ exit_code = Running
    /\ interrupted = FALSE

\* a run of install.py
Init ==
    /\ variant = "install"
    /\ InitHost
    /\ InitRun

\* a run of either file
InitBoth ==
    /\ variant \in Variants
    /\ InitHost
    /\ InitRun

\* mutant: --onnxruntime declared without choices
ParseArgsNoChoices ==
    /\ pc = "parse"
    /\ pc' = "check_uv"
    /\ UNCHANGED << host, manifest, idx, calls, cuda_locals, stdout, stderr,
                    exit_code, interrupted >>

\* program.parse_args(): a value outside choices is an argparse error, which
\* prints the usage and the error to stderr and exits with status 2
ParseArgs ==
    /\ pc = "parse"
    /\ IF choice \in DOMAIN catalog
       THEN /\ pc' = "check_uv"
            /\ UNCHANGED << stderr, exit_code >>
       ELSE /\ stderr' = stderr \o << "usage", "invalid_choice" >>
            /\ Exit(2)
    /\ UNCHANGED << host, manifest, idx, calls, cuda_locals, stdout, interrupted >>

\* mutant: the missing tool is reported and the run goes on
check_uv_installed_lenient ==
    /\ pc = "check_uv"
    /\ pc' = "check_conda"
    /\ IF uv_on_path
       THEN UNCHANGED stderr
       ELSE stderr' = stderr \o << "uv_not_found", "uv_visit" >>
    /\ UNCHANGED << host, manifest, idx, calls, cuda_locals, stdout, exit_code, interrupted >>

check_uv_installed ==
    /\ pc = "check_uv"
    /\ IF uv_on_path
       THEN /\ pc' = "check_conda"
            /\ UNCHANGED << stderr, exit_code >>
       ELSE /\ stderr' = stderr \o << "uv_not_found", "uv_visit" >>
            /\ Exit(1)
    /\ UNCHANGED << host, manifest, idx, calls, cuda_locals, stdout, interrupted >>

\* lines 74-81 of install.py
CheckConda ==
    /\ pc = "check_conda"
    /\ IF ~skip_conda /\ ~has_conda
       THEN /\ stdout' = stdout \o << "conda_not_activated" >>
            /\ Exit(1)
       ELSE /\ stdout' = stdout \o << "installing_dependencies" >>
            /\ pc' = "open"
            /\ UNCHANGED exit_code
    /\ UNCHANGED << host, manifest, idx, calls, cuda_locals, stderr, interrupted >>

\* open('requirements.txt'): the file is missing, or holds some lines
OpenManifest ==
    /\ pc = "open"
    /\ \/ /\ stderr' = stderr \o << "requirements_not_found" >>
          /\ Exit(1)
          /\ UNCHANGED << manifest, idx >>
       \/ /\ \E m \in Manifests : manifest' = m
          /\ idx' = 1
          /\ pc' = "generic"
          /\ UNCHANGED << stderr, exit_code >>
    /\ UNCHANGED << host, calls, cuda_locals, stdout, interrupted >>

\* mutant: the install is started and the loop goes on without waiting
GenericStepNoWait ==
    /\ pc = "generic"
    /\ IF idx > Len(manifest)
       THEN /\ pc' = "runtime"
            /\ UNCHANGED << idx, calls, stdout >>
       ELSE IF Installable(manifest[idx])
       THEN /\ stdout' = stdout \o << "installing_line" >>
            /\ calls' = Append(calls, UvInstall(variant, "generic", LineText(manifest[idx])))
            /\ idx' = idx + 1
            /\ UNCHANGED pc
       ELSE /\ idx' = idx + 1
            /\ UNCHANGED << pc, calls, stdout >>
    /\ UNCHANGED << host, manifest, cuda_locals, stderr, exit_code, interrupted >>

\* one turn of the loop over the manifest, up to the install it issues
GenericStep ==
    /\ pc = "generic"
    /\ IF idx > Len(manifest)
       THEN /\ pc' = "runtime"
            /\ UNCHANGED << idx, calls, stdout >>
       ELSE IF Installable(manifest[idx])
       THEN /\ stdout' = stdout \o << "installing_line" >>
            /\ calls' = Append(calls, UvInstall(variant, "generic", LineText(manifest[idx])))
            /\ pc' = "generic_wait"
            /\ UNCHANGED idx
       ELSE /\ idx' = idx + 1
            /\ UNCHANGED << pc, calls, stdout >>
    /\ UNCHANGED << host, manifest, cuda_locals, stderr, exit_code, interrupted >>

\* the install of a manifest line exits
GenericDone ==
    /\ pc = "generic_wait"
    /\ \E ok \in BOOLEAN :
         /\ calls' = Settle(calls, IF ok THEN "ok" ELSE "failed")
         /\ IF ok \/ ~ChecksStatus(variant)
            THEN /\ idx' = idx + 1
                 /\ pc' = "generic"
                 /\ UNCHANGED << stderr, exit_code >>
            ELSE /\ stderr' = stderr \o << "error_installing_dependency" >>
                 /\ Exit(1)
                 /\ UNCHANGED idx
    /\ UNCHANGED << host, manifest, cuda_locals, stdout, interrupted >>

\* lines 100-132 of install.py: the install of the runtime package is issued
RuntimeStep ==
    /\ pc = "runtime"
    /\ LET name == catalog[choice][1]
           ver  == catalog[choice][2]
           tag  == PythonTag(version_info)
       IN  IF choice = "rocm"
           THEN IF tag \in RocmTags(variant)
                THEN /\ stdout' = stdout \o << "installing_variant", "installing_rocm_from" >>
                     /\ calls' = Append(calls, UvInstall(variant, "wheel", WheelUrl(ver, tag)))
                     /\ UNCHANGED stderr
                ELSE /\ stdout' = stdout \o << "installing_variant" >>
                     /\ stderr' = stderr \o << "warning_no_rocm_wheel", "warning_standard_install" >>
                     /\ calls' = Append(calls, UvInstall(variant, "runtime", name \o "==" \o ver))
           ELSE /\ stdout' = stdout \o << "installing_variant", "installing_name" >>
                /\ calls' = Append(calls, UvInstall(variant, "runtime", name \o "==" \o ver))
                /\ UNCHANGED stderr
    /\ pc' = "runtime_wait"
    /\ UNCHANGED << host, manifest, idx, cuda_locals, exit_code, interrupted >>

\* mutant: a failed runtime install is attempted again
RuntimeDoneRetry ==
    /\ pc = "runtime_wait"
    /\ \E ok \in BOOLEAN :
         /\ calls' = Settle(calls, IF ok THEN "ok" ELSE "failed")
         /\ pc' = IF ok \/ ~ChecksStatus(variant) THEN "cuda" ELSE "runtime"
         /\ UNCHANGED << stderr, exit_code >>
    /\ UNCHANGED << host, manifest, idx, cuda_locals, stdout, interrupted >>

\* the install of the runtime package exits
RuntimeDone ==
    /\ pc = "runtime_wait"
    /\ \E ok \in BOOLEAN :
         /\ calls' = Settle(calls, IF ok THEN "ok" ELSE "failed")
         /\ IF ok \/ ~ChecksStatus(variant)
            THEN /\ pc' = "cuda"
                 /\ UNCHANGED << stderr, exit_code >>
            ELSE /\ stderr' = stderr \o << "error_installing_onnxruntime" >>
                 /\ Exit(1)
    /\ UNCHANGED << host, manifest, idx, cuda_locals, stdout, interrupted >>

\* mutant: the missing conda tool ends the run
CudaStepCondaRequired ==
    /\ pc = "cuda"
    /\ IF choice = "cuda" /\ has_conda /\ ~skip_conda
       THEN IF ~conda_on_path
            THEN /\ stdout' = stdout \o << "warning_conda_not_found" >>
                 /\ Exit(1)
                 /\ UNCHANGED << calls, cuda_locals >>
            ELSE \E value \in SearchPathValues(platform, conda_prefix, version_info,
                                                MaxInput - Len(manifest)) :
                 LET paths == LibraryPaths(platform, conda_prefix, version_info, value)
                     name  == SearchPathName(platform)
                 IN  \E exists \in SUBSET (Range(paths) \ {""}) :
                   LET valid == ValidLibraryPaths(paths, exists)
                   IN  /\ search_path' = value
                       /\ fs' = exists
                       /\ env_var_name' = name
                       /\ library_paths' = paths
                       /\ valid_library_paths' = valid
                       /\ UNCHANGED exit_code
                       /\ IF valid # << >> /\ name # ""
                          THEN /\ stdout' = stdout \o << "configuring_conda", "setting_variable" >>
                               /\ calls' = Append(calls, CondaVarsSet(platform, name, valid))
                               /\ pc' = "persist_wait"
                          ELSE /\ stdout' = stdout \o << "configuring_conda", "no_valid_library_paths" >>
                               /\ pc' = "pin"
                               /\ UNCHANGED calls
       ELSE /\ pc' = "pin"
            /\ UNCHANGED << calls, cuda_locals, stdout, exit_code >>
    /\ UNCHANGED << host, manifest, idx, stderr, interrupted >>

\* lines 138-188 of install.py: the search path and the filesystem are read
\* here, the paths are resolved and the persist command is issued
CudaStep ==
    /\ pc = "cuda"
    /\ IF choice = "cuda" /\ has_conda /\ ~skip_conda
       THEN IF ~conda_on_path
            THEN /\ stdout' = stdout \o << "warning_conda_not_found" >>
                 /\ pc' = "pin"
                 /\ UNCHANGED << calls, cuda_locals >>
            ELSE \E value \in SearchPathValues(platform, conda_prefix, version_info,
                                                MaxInput - Len(manifest)) :
                 LET paths == LibraryPaths(platform, conda_prefix, version_info, value)
                     name  == SearchPathName(platform)
                 IN  \E exists \in SUBSET (Range(paths) \ {""}) :
                   LET valid == ValidLibraryPaths(paths, exists)
                   IN  /\ search_path' = value
                       /\ fs' = exists
                       /\ env_var_name' = name
                       /\ library_paths' = paths
                       /\ valid_library_paths' = valid
                       /\ IF valid # << >> /\ name # ""
                          THEN /\ stdout' = stdout \o << "configuring_conda", "setting_variable" >>
                               /\ calls' = Append(calls, CondaVarsSet(platform, name, valid))
                               /\ pc' = "persist_wait"
                          ELSE /\ stdout' = stdout \o << "configuring_conda", "no_valid_library_paths" >>
                               /\ pc' = "pin"
                               /\ UNCHANGED calls
       ELSE /\ pc' = "pin"
            /\ UNCHANGED << calls, cuda_locals, stdout >>
    /\ UNCHANGED << host, manifest, idx, stderr, exit_code, interrupted >>

\* the persist command exits; its failure is reported and the run goes on
PersistDone ==
    /\ pc = "persist_wait"
    /\ \E ok \in BOOLEAN :
         /\ calls' = Settle(calls, IF ok THEN "ok" ELSE "failed")
         /\ IF ok \/ ~ChecksStatus(variant)
            THEN /\ stdout' = stdout \o << "conda_variables_set", "example_conda_activate" >>
                 /\ UNCHANGED stderr
            ELSE /\ stderr' = stderr \o << "error_setting_conda_variables" >>
                 /\ UNCHANGED stdout
    /\ pc' = "pin"
    /\ UNCHANGED << host, manifest, idx, cuda_locals, exit_code, interrupted >>

\* lines 191-194 of install.py
PinStep ==
    /\ pc = "pin"
    /\ IF choice = "directml"
       THEN /\ stdout' = stdout \o << "installing_numpy" >>
            /\ calls' = Append(calls, UvInstall(variant, "pin", "numpy==1.26.4"))
            /\ pc' = "pin_wait"
       ELSE /\ pc' = "finish"
            /\ UNCHANGED << calls, stdout >>
    /\ UNCHANGED << host, manifest, idx, cuda_locals, stderr, exit_code, interrupted >>

\* the install of the numpy pin exits
PinDone ==
    /\ pc = "pin_wait"
    /\ \E ok \in BOOLEAN :
         /\ calls' = Settle(calls, IF ok THEN "ok" ELSE "failed")
         /\ IF ok \/ ~ChecksStatus(variant)
            THEN /\ pc' = "finish"
                 /\ UNCHANGED << stderr, exit_code >>
            ELSE /\ stderr' = stderr \o << "error_installing_numpy" >>
                 /\ Exit(1)
    /\ UNCHANGED << host, manifest, idx, cuda_locals, stdout, interrupted >>

\* line 199 of install.py, and the return of cli()
Finish ==
    /\ pc = "finish"
    /\ stdout' = stdout \o << "installation_completed" >>
    /\ Exit(0)
    /\ UNCHANGED << host, manifest, idx, calls, cuda_locals, stderr, interrupted >>

\* mutant: the handler exits with status 1 and reports the interrupt
signal_exit_status1 ==
    /\ pc # "exited"
    /\ interrupted' = TRUE
    /\ calls' = IF InFlight THEN Settle(calls, "killed") ELSE calls
    /\ stderr' = stderr \o << "interrupted" >>
    /\ Exit(1)
    /\ UNCHANGED << host, manifest, idx, cuda_locals, stdout >>

\* SIGINT: the handler raises SystemExit(0), which no except clause of run()
\* catches; subprocess kills the command in flight on its way out
signal_exit ==
    /\ pc # "exited"
    /\ interrupted' = TRUE
    /\ calls' = IF InFlight THEN Settle(calls, "killed") ELSE calls
    /\ Exit(0)
    /\ UNCHANGED << host, manifest, idx, cuda_locals, stdout, stderr >>

Next ==
    \/ ParseArgs
    \/ check_uv_installed
    \/ CheckConda
    \/ OpenManifest
    \/ GenericStep
    \/ GenericDone
    \/ RuntimeStep
    \/ RuntimeDone
    \/ CudaStep
    \/ PersistDone
    \/ PinStep
    \/ PinDone
    \/ Finish
    \/ signal_exit

Spec == Init /\ [][Next]_vars

SpecBoth == InitBoth /\ [][Next]_vars

\* the steps of run() itself: every step but SIGINT
RunStep ==
    \/ ParseArgs
    \/ check_uv_installed
    \/ CheckConda
    \/ OpenManifest
    \/ GenericStep
    \/ GenericDone
    \/ RuntimeStep
    \/ RuntimeDone
    \/ CudaStep
    \/ PersistDone
    \/ PinStep
    \/ PinDone
    \/ Finish

\* install.py where the interpreter keeps running and every command that
\* was started exits: subprocess.run blocks until then and has no timeout
SpecLive == Init /\ [][Next]_vars /\ WF_vars(RunStep)

-----------------------------------------------------------------------------
(* What the properties below speak of.                                     *)

Exited == pc = "exited"

\* the run ended by itself, not by SIGINT
EndedItself == Exited /\ ~interrupted

Completed == "installation_completed" \in Range(stdout)

CallsOfKind(k) == { i \in DOMAIN calls : calls[i].kind = k }

\* the fatal condition the run reported, read off the message it wrote
FatalCondition ==
    IF "invalid_choice" \in Range(stderr) THEN "UnsupportedBackendForPlatform"
    ELSE IF "uv_not_found" \in Range(stderr) THEN "ToolNotFound"
    ELSE IF "conda_not_activated" \in Range(stdout) THEN "EnvironmentNotActive"
    ELSE IF "requirements_not_found" \in Range(stderr) THEN "ManifestNotFound"
    ELSE IF Range(stderr) \cap {"error_installing_dependency",
                                "error_installing_onnxruntime",
                                "error_installing_numpy"} # {}
         THEN "PackageInstallFailure"
    ELSE "none"

\* The classes of manifest lines, on the text of the line: its first piece
\* that is not whitespace decides.
IsBlankLine(line) == \A i \in DOMAIN line : line[i] = " "

FirstNonBlank(line) ==
    line[CHOOSE i \in DOMAIN line :
             line[i] # " " /\ \A j \in 1 .. i - 1 : line[j] = " "]

LastNonBlankAt(line) ==
    CHOOSE i \in DOMAIN line :
        line[i] # " " /\ \A j \in i + 1 .. Len(line) : line[j] = " "

IsCommentLine(line) == ~IsBlankLine(line) /\ FirstNonBlank(line) = "#"

IsRuntimeLine(line) == ~IsBlankLine(line) /\ FirstNonBlank(line) = "onnxruntime"

ToInstall(line) ==
    ~IsBlankLine(line) /\ ~IsCommentLine(line) /\ ~IsRuntimeLine(line)

\* the specifier on the line, without the whitespace around it
Specifier(line) ==
    LET first == CHOOSE i \in DOMAIN line :
                     line[i] # " " /\ \A j \in 1 .. i - 1 : line[j] = " "
    IN  JoinStr(SubSeq(line, first, LastNonBlankAt(line)), "")

\* the specifiers of the first n manifest lines that are to be installed
ExpectedSpecifiers(n) ==
    LET kept == SelectSeq(SubSeq(manifest, 1, n), ToInstall)
    IN  [ i \in DOMAIN kept |-> Specifier(kept[i]) ]

\* what the generic install step was handed, in order
GenericTargets ==
    LET g == SelectSeq(calls, LAMBDA c : c.kind = "generic")
    IN  [ i \in DOMAIN g |-> g[i].args[3] ]

IsPrefix(a, b) == Len(a) <= Len(b) /\ a = SubSeq(b, 1, Len(a))

\* requirements.txt was opened and the loop has gone through all its lines
LoopFinished == idx > Len(manifest)

ManifestFound == "requirements_not_found" \notin Range(stderr)

AllSucceeded == \A i \in DOMAIN calls : calls[i].status = "ok"

\* the commands of a run for 'default' in which every command succeeds
ExpectedDefaultRun ==
    LET e == ExpectedSpecifiers(Len(manifest))
    IN  [ i \in DOMAIN e |->
            [ tool |-> "uv", kind |-> "generic",
              args |-> << "pip", "install", e[i], "--reinstall" >>,
              status |-> "ok" ] ]
        \o << [ tool |-> "uv", kind |-> "runtime",
                args |-> << "pip", "install", "onnxruntime==1.21.1", "--reinstall" >>,
                status |-> "ok" ] >>

\* the position of the first x in seq
FirstIndex(seq, x) ==
    CHOOSE i \in DOMAIN seq : seq[i] = x /\ \A j \in 1 .. i - 1 : seq[j] # x

\* the cuda step has resolved the library paths
Resolved == env_var_name # ""

-----------------------------------------------------------------------------
(* C1: on every platform the catalog built at startup has the entry        *)
(* 'default'; it has 'rocm' exactly on Linux, 'directml' exactly on        *)
(* Windows, 'cuda' and 'openvino' exactly on Linux and Windows, and no     *)
(* other entry, so that elsewhere it is {default}.  Both files.            *)
C1_CatalogMatchesPlatform ==
    /\ "default" \in DOMAIN catalog
    /\ ("rocm" \in DOMAIN catalog) <=> (platform = "linux")
    /\ ("directml" \in DOMAIN catalog) <=> (platform = "windows")
    /\ ("cuda" \in DOMAIN catalog) <=> (platform \in {"linux", "windows"})
    /\ ("openvino" \in DOMAIN catalog) <=> (platform \in {"linux", "windows"})
    /\ DOMAIN catalog \subseteq AcceleratorChoices
    /\ (platform = "other") => (DOMAIN catalog = {"default"})

\* installer.py ran to its end on a platform that is neither Linux nor Windows
C1_Witness ==
    /\ variant = "installer"
    /\ platform = "other"
    /\ DOMAIN catalog = {"default"}
    /\ EndedItself
    /\ exit_code = 0

(* C2: the list the cuda step resolves has no path twice, has no path that *)
(* does not exist when the step runs, and keeps the entries of the search  *)
(* path that exist in the order of their first occurrence, all of them     *)
(* before every directory that the step itself appends.                    *)
C2_ResolvedPathsValid ==
    Resolved =>
        LET v == valid_library_paths
        IN  /\ \A i, j \in DOMAIN v : i # j => v[i] # v[j]
            /\ \A i \in DOMAIN v : v[i] \in fs /\ v[i] # ""
            /\ \A x \in Range(search_path) \cap fs : x \in Range(v)
            /\ \A i, j \in DOMAIN v :
                 (i < j /\ v[j] \in Range(search_path)) =>
                     /\ v[i] \in Range(search_path)
                     /\ FirstIndex(search_path, v[i]) < FirstIndex(search_path, v[j])

\* two different entries that exist are kept in order, one candidate is
\* appended behind them and another candidate is dropped for not existing
C2_Witness ==
    /\ Resolved
    /\ Len(search_path) = 2
    /\ search_path[1] # search_path[2]
    /\ Len(valid_library_paths) = 3
    /\ valid_library_paths[1] = search_path[1]
    /\ valid_library_paths[2] = search_path[2]
    /\ valid_library_paths[3] \notin Range(search_path)
    /\ \E x \in Range(library_paths) : x \notin fs

C4_ManifestFailFast ==
    \A i \in DOMAIN calls :
        (calls[i].kind = "generic" /\ calls[i].status = "failed") =>
            /\ i = Len(calls)
            /\ Exited
            /\ exit_code = 1
            /\ FatalCondition = "PackageInstallFailure"
            /\ ~Completed

\* the first of two installable lines failed and the second was never tried
C4_Witness ==
    /\ Len(manifest) = 2
    /\ Installable(manifest[1])
    /\ Installable(manifest[2])
    /\ Len(calls) = 1
    /\ calls[1].kind = "generic"
    /\ calls[1].status = "failed"
    /\ Exited

(* C5 (install.py): with no environment active and --skip-conda not given, *)
(* whatever the choice, no install command is ever issued and the run      *)
(* never gets past the environment check; a run that reaches that check    *)
(* (choice accepted by the parser, uv found, no SIGINT) ends with          *)
(* EnvironmentNotActive and exit code 1.                                   *)
C5_EnvironmentCheckedFirst ==
    (conda_prefix = NoPrefix /\ ~skip_conda) =>
        /\ calls = << >>
        /\ pc \in {"parse", "check_uv", "check_conda", "exited"}
        /\ (EndedItself /\ choice \in DOMAIN catalog /\ uv_on_path) =>
             /\ FatalCondition = "EnvironmentNotActive"
             /\ exit_code = 1

\* 'cuda' was asked for with no environment active, and the run has ended
C5_Witness ==
    /\ conda_prefix = NoPrefix
    /\ ~skip_conda
    /\ choice = "cuda"
    /\ EndedItself
    /\ FatalCondition = "EnvironmentNotActive"
    /\ exit_code = 1
    /\ calls = << >>

(* C6 (install.py): taking each manifest line without the whitespace       *)
(* around it, as the loop does: a line that is blank, that begins with '#' *)
(* or that begins with the runtime package name 'onnxruntime' is never     *)
(* handed to the generic install step; every other line is, in manifest    *)
(* order, unless the run was ended before it got to the line.              *)
C6_ManifestFilter ==
    /\ IsPrefix(GenericTargets, ExpectedSpecifiers(Len(manifest)))
    /\ (pc = "generic" /\ idx >= 1) => GenericTargets = ExpectedSpecifiers(idx - 1)
    /\ (pc = "generic_wait") =>
           /\ ToInstall(manifest[idx])
           /\ GenericTargets = ExpectedSpecifiers(idx)
    /\ LoopFinished => GenericTargets = ExpectedSpecifiers(Len(manifest))
    /\ \A i \in CallsOfKind("generic") :
           /\ calls[i].tool = "uv"
           /\ calls[i].args = << "pip", "install", calls[i].args[3], "--reinstall" >>

\* of an indented runtime line and a padded specifier, only the specifier
\* was installed, without its padding
C6_Witness ==
    /\ manifest = << << " ", "onnxruntime", "-gpu" >>, << " ", "tqdm", " " >> >>
    /\ LoopFinished
    /\ GenericTargets = << "tqdm" >>

(* C7 as stated, for runs that find uv and requirements.txt: on Linux with *)
(* 'default', whatever the environment and the skip flag, when every       *)
(* command succeeds the run issues one generic install per installable     *)
(* manifest line, in order, then one install of the default runtime        *)
(* package, nothing else, and exits 0.                                     *)
C7_Original ==
    ( /\ EndedItself
      /\ platform = "linux"
      /\ choice = "default"
      /\ uv_on_path
      /\ ManifestFound
      /\ AllSucceeded ) =>
        /\ exit_code = 0
        /\ calls = ExpectedDefaultRun

(* C7, amended (install.py): on Linux with 'default', with uv on the path, *)
(* requirements.txt present, and an environment active or --skip-conda     *)
(* given, when every command succeeds and no SIGINT arrives the run issues *)
(* one generic install per installable manifest line, in order, then one   *)
(* install of onnxruntime==1.21.1, nothing else, and exits 0 with the      *)
(* completion message.                                                     *)
C7_DefaultRunOnLinux ==
    ( /\ EndedItself
      /\ platform = "linux"
      /\ choice = "default"
      /\ uv_on_path
      /\ ManifestFound
      /\ has_conda \/ skip_conda
      /\ AllSucceeded ) =>
        /\ exit_code = 0
        /\ Completed
        /\ calls = ExpectedDefaultRun

\* numpy was installed, the runtime line of the manifest was not, and the
\* default runtime package was installed after it
C7_Witness ==
    /\ EndedItself
    /\ platform = "linux"
    /\ choice = "default"
    /\ manifest = << << "numpy==1.26.0" >>, << "onnxruntime", "==1.0.0" >> >>
    /\ exit_code = 0
    /\ Len(calls) = 2
    /\ calls[1].args[3] = "numpy==1.26.0"
    /\ calls[2].args[3] = "onnxruntime==1.21.1"

(* C8 (install.py): the numpy pin is issued at most once, only for         *)
(* 'directml' on Windows, as numpy==1.26.4, and only right after the       *)
(* install of the runtime package has completed successfully; no install   *)
(* of the runtime package follows it; a run for 'directml' that gets to    *)
(* the pin step issues it exactly once.                                    *)
C8_PinAfterRuntime ==
    /\ Cardinality(CallsOfKind("pin")) <= 1
    /\ \A i \in CallsOfKind("pin") :
           /\ choice = "directml"
           /\ platform = "windows"
           /\ calls[i].args = << "pip", "install", "numpy==1.26.4", "--reinstall" >>
           /\ i > 1
           /\ calls[i - 1].kind = "runtime"
           /\ calls[i - 1].status = "ok"
           /\ \A j \in CallsOfKind("runtime") \cup CallsOfKind("wheel") : j < i
    /\ (choice = "directml" /\ pc \in {"pin_wait", "finish"}) =>
           Cardinality(CallsOfKind("pin")) = 1
    /\ (choice = "directml" /\ EndedItself /\ exit_code = 0) =>
           Cardinality(CallsOfKind("pin")) = 1

\* a run for 'directml' ended after the pin succeeded
C8_Witness ==
    /\ choice = "directml"
    /\ platform = "windows"
    /\ EndedItself
    /\ exit_code = 0
    /\ CallsOfKind("pin") = { Len(calls) }
    /\ calls[Len(calls)].status = "ok"

(* C9 (both files): SIGINT can arrive in every state of a run that has not *)
(* exited, a command in flight included; the step that handles it ends the *)
(* process with exit code 0, leaves no command in flight, issues no        *)
(* command and writes nothing to stdout or stderr (no error, no completion *)
(* message); and nothing happens after it.                                 *)
C9_InterruptEndsRun ==
    /\ [](~Exited => ENABLED signal_exit)
    /\ [][ /\ (~interrupted /\ interrupted') =>
                /\ pc' = "exited"
                /\ exit_code' = 0
                /\ Len(calls') = Len(calls)
                /\ \A i \in DOMAIN calls' : calls'[i].status # "running"
                /\ stdout' = stdout
                /\ stderr' = stderr
           /\ interrupted => UNCHANGED vars ]_vars

\* SIGINT ended the run while a command was in flight
C9_Witness ==
    /\ interrupted
    /\ Exited
    /\ exit_code = 0
    /\ calls # << >>
    /\ calls[Len(calls)].status = "killed"
    /\ ~Completed

(* C10 as stated: every fatal condition writes a message to the error      *)
(* stream before the process exits with a non-zero code; no fatal exit     *)
(* happens with an empty error stream.                                     *)
C10_NoSilentFatalExit ==
    (Exited /\ exit_code # 0) => stderr # << >>

-----------------------------------------------------------------------------
\* the commands that install a package
InstallKinds == {"generic", "runtime", "wheel", "pin"}

FailedCalls == { i \in DOMAIN calls : calls[i].status = "failed" }

(* C11: a failing command of the generic install, the runtime install,     *)
(* the persist step or the numpy pin ends the run with exit code 1 and     *)
(* without the completion message.                                         *)
C11_EveryFailureFatal ==
    (EndedItself /\ FailedCalls # {}) =>
        /\ exit_code = 1
        /\ ~Completed

(* C12: when uv is not on the search path the run issues no command and    *)
(* never reaches the environment check; left to itself (backend accepted,  *)
(* no interrupt) it ends with ToolNotFound and exit code 1.                *)
C12_ToolCheckedFirst ==
    ~uv_on_path =>
        /\ calls = << >>
        /\ pc \in {"parse", "check_uv", "exited"}
        /\ "conda_not_activated" \notin Range(stdout)
        /\ (EndedItself /\ choice \in DOMAIN catalog) =>
               /\ exit_code = 1
               /\ FatalCondition = "ToolNotFound"

\* uv is missing in a run that would also have failed the environment check
C12_Witness ==
    /\ ~uv_on_path
    /\ ~has_conda
    /\ ~skip_conda
    /\ EndedItself
    /\ FatalCondition = "ToolNotFound"

\* the phase of a command: generic installs, runtime install, persist, pin
PhaseOf(kind) ==
    CASE kind = "generic" -> 1
      [] kind \in {"runtime", "wheel"} -> 2
      [] kind = "persist" -> 3
      [] kind = "pin" -> 4

CallsOfPhase(n) == { i \in DOMAIN calls : PhaseOf(calls[i].kind) = n }

PastRuntimeStep ==
    \/ pc \in {"runtime_wait", "cuda", "persist_wait", "pin", "pin_wait", "finish"}
    \/ Completed

(* C13: the commands of a run come in phase order: generic installs, then  *)
(* exactly one runtime install, then at most one persist command, then at  *)
(* most one numpy pin; no command of an earlier phase follows one of a     *)
(* later phase.                                                            *)
C13_PhaseOrder ==
    /\ \A i, j \in DOMAIN calls :
           i < j => PhaseOf(calls[i].kind) <= PhaseOf(calls[j].kind)
    /\ \A n \in {2, 3, 4} : Cardinality(CallsOfPhase(n)) <= 1
    /\ PastRuntimeStep => Cardinality(CallsOfPhase(2)) = 1
    /\ CallsOfPhase(3) \cup CallsOfPhase(4) # {} => CallsOfPhase(2) # {}

\* a completed run with commands of three phases
C13_Witness ==
    /\ Completed
    /\ \A n \in {1, 2, 3} : CallsOfPhase(n) # {}

PastCudaStep ==
    \/ pc \in {"persist_wait", "pin", "pin_wait", "finish"}
    \/ Completed

\* the conditions of the persist step, its non-empty result apart
PersistConditions ==
    /\ choice = "cuda"
    /\ has_conda
    /\ ~skip_conda
    /\ conda_on_path

\* NAME=value as the claim states it: the variable of the platform and the
\* resolved list joined with the separator of the platform
ExpectedAssignment ==
    (IF platform = "windows" THEN "PATH" ELSE "LD_LIBRARY_PATH")
        \o "=" \o
    JoinStr(valid_library_paths, IF platform = "windows" THEN ";" ELSE ":")

(* C14: a persist command is issued only for cuda with an active           *)
(* environment, without --skip-conda, with conda on the search path and a  *)
(* non-empty resolved list; then exactly one is issued, `conda env config  *)
(* vars set` of LD_LIBRARY_PATH on Linux and PATH on Windows with the      *)
(* resolved list as value; otherwise none is issued.                       *)
C14_PersistExactlyWhenDue ==
    /\ Cardinality(CallsOfKind("persist")) <= 1
    /\ \A i \in CallsOfKind("persist") :
           /\ PersistConditions
           /\ valid_library_paths # << >>
           /\ platform \in {"linux", "windows"}
           /\ calls[i].tool = "conda"
           /\ calls[i].args = << "env", "config", "vars", "set", ExpectedAssignment >>
    /\ PastCudaStep =>
           (CallsOfKind("persist") # {}
               <=> (PersistConditions /\ valid_library_paths # << >>))

\* a persist command with a list of two paths was issued on Windows
C14_Witness ==
    /\ platform = "windows"
    /\ Len(valid_library_paths) = 2
    /\ CallsOfKind("persist") # {}
    /\ Completed

(* C15: for cuda (where the platform has it) with an active environment    *)
(* and without --skip-conda, when conda is not on the search path a        *)
(* warning is written once the run gets to the cuda step, no persist       *)
(* command is issued, and the run, its installs succeeding, ends with the  *)
(* completion message and exit code 0.                                     *)
C15_MissingCondaIsWarning ==
    ( /\ choice = "cuda" /\ choice \in DOMAIN catalog
      /\ has_conda /\ ~skip_conda /\ ~conda_on_path ) =>
        /\ CallsOfKind("persist") = {}
        /\ PastCudaStep => "warning_conda_not_found" \in Range(stdout)
        /\ (EndedItself /\ uv_on_path /\ ManifestFound /\ AllSucceeded) =>
               (exit_code = 0 /\ Completed)

\* a cuda run without the conda tool completed after the warning
C15_Witness ==
    /\ choice = "cuda" /\ has_conda /\ ~skip_conda /\ ~conda_on_path
    /\ "warning_conda_not_found" \in Range(stdout)
    /\ EndedItself
    /\ exit_code = 0
    /\ Completed

\* the ABI tags install.py installs from a wheel URL
KnownAbiTags == {"cp310", "cp311", "cp312"}

WheelDue == choice = "rocm" /\ PythonTag(version_info) \in KnownAbiTags

\* name==version of the backends of install.py, as in its catalog
NameAtVersion ==
    CASE choice = "default"  -> "onnxruntime==1.21.1"
      [] choice = "cuda"     -> "onnxruntime-gpu==1.21.1"
      [] choice = "openvino" -> "onnxruntime-openvino==1.21.0"
      [] choice = "directml" -> "onnxruntime-directml==1.17.3"
      [] choice = "rocm"     -> "onnxruntime-rocm==1.21.0"

\* what the runtime install of install.py installs
ExpectedRuntimeTarget ==
    IF WheelDue
    THEN "https://repo.radeon.com/rocm/manylinux/rocm-rel-6.4/onnxruntime_rocm-1.21.0-"
             \o PythonTag(version_info) \o "-" \o PythonTag(version_info)
             \o "-linux_x86_64.whl"
    ELSE NameAtVersion

(* C16 (install.py): a run that gets to the runtime install issues exactly *)
(* one command for it, `uv pip install <target> --reinstall`.  For rocm    *)
(* with an ABI tag among cp310, cp311, cp312 the target is the wheel URL   *)
(* built from the release path, the catalog version and the tag, and no    *)
(* name==version install is issued.  For rocm with another tag a warning   *)
(* is written and the target is name==version; if that command fails the   *)
(* run exits with code 1.  For every other backend the target is           *)
(* name==version and no warning is written.                                *)
C16_RuntimeStrategy ==
    PastRuntimeStep =>
        /\ Cardinality(CallsOfPhase(2)) = 1
        /\ \A i \in CallsOfPhase(2) :
               /\ calls[i].tool = "uv"
               /\ calls[i].args = << "pip", "install", ExpectedRuntimeTarget, "--reinstall" >>
               /\ calls[i].kind = IF WheelDue THEN "wheel" ELSE "runtime"
               /\ "warning_no_rocm_wheel" \in Range(stderr)
                      <=> (choice = "rocm" /\ ~WheelDue)
               /\ calls[i].status = "failed" =>
                      (Exited /\ exit_code = 1 /\ ~Completed)

\* the fallback install for an ABI tag without a wheel failed
C16_Witness ==
    /\ choice = "rocm"
    /\ PythonTag(version_info) = "cp39"
    /\ "warning_no_rocm_wheel" \in Range(stderr)
    /\ \E i \in CallsOfKind("runtime") : calls[i].status = "failed"
    /\ exit_code = 1

RunningCalls == { i \in DOMAIN calls : calls[i].status = "running" }

\* at most one command is in flight, and it is the last one issued
OneInFlight ==
    /\ Cardinality(RunningCalls) <= 1
    /\ RunningCalls \subseteq {Len(calls)}
    /\ InFlight => (~Exited /\ ~Completed)

\* while a command is in flight the only thing that happens is its end:
\* it exits, or SIGINT kills it with the run
BlockedWhileInFlight ==
    InFlight =>
        /\ Len(calls') = Len(calls)
        /\ calls'[Len(calls)].status # "running"
        /\ stdout' # stdout => ~interrupted'
        /\ calls'[Len(calls)].status = "killed" <=> interrupted'

\* the run is over: completion message, fatal exit, or SIGINT
Terminated ==
    /\ Exited
    /\ \/ interrupted /\ exit_code = 0
       \/ ~interrupted /\ exit_code = 0 /\ Completed
       \/ ~interrupted /\ exit_code \in {1, 2} /\ ~Completed

(* C17 (install.py): at most one command is in flight at any time, and a   *)
(* command is issued only when every earlier one has exited; while a       *)
(* command is in flight no step is taken but its exit or SIGINT, so a      *)
(* command that never exits keeps the run from every later step and from   *)
(* the completion message; and when every command that is started exits,   *)
(* the run terminates: completion message, fatal exit, or SIGINT.          *)
C17_SequentialAndTerminating ==
    /\ []OneInFlight
    /\ [][BlockedWhileInFlight]_vars
    /\ <>Terminated

\* a third command is in flight after two that exited
C17_Witness ==
    /\ InFlight
    /\ Len(calls) = 3
    /\ calls[1].status = "ok"
    /\ calls[2].status = "ok"

InstallCalls == { i \in DOMAIN calls : calls[i].kind \in InstallKinds }

(* C18 (install.py): the completion message is written, and the run exits  *)
(* with code 0 without SIGINT, only if every install command of the run    *)
(* (each generic install, the runtime install, the numpy pin for directml) *)
(* succeeded; and for directml the numpy pin is among them.                *)
C18_CompletionNeedsSuccess ==
    (Completed \/ (EndedItself /\ exit_code = 0)) =>
        /\ \A i \in InstallCalls : calls[i].status = "ok"
        /\ Cardinality(CallsOfPhase(2)) = 1
        /\ GenericTargets = ExpectedSpecifiers(Len(manifest))
        /\ choice = "directml" <=> CallsOfKind("pin") # {}

\* a directml run completed after a generic install, the runtime and the pin
C18_Witness ==
    /\ Completed
    /\ exit_code = 0
    /\ CallsOfKind("generic") # {}
    /\ CallsOfKind("pin") # {}

-----------------------------------------------------------------------------
(* The installer is run again after the persisted variable took effect.    *)

RECURSIVE SplitFrom(_, _, _, _)
\* the pieces of s from position start on, i being the position looked at
SplitFrom(s, sep, start, i) ==
    IF i > Len(s) THEN << SubSeq(s, start, Len(s)) >>
    ELSE IF SubSeq(s, i, i) = sep
         THEN << SubSeq(s, start, i - 1) >> \o SplitFrom(s, sep, i + 1, i + 1)
         ELSE SplitFrom(s, sep, start, i + 1)

\* s.split(sep) for a separator of one character
SplitStr(s, sep) == SplitFrom(s, sep, 1, 1)

\* the value conda stored for NAME=value
AssignedValue(assignment, name) ==
    SubSeq(assignment, Len(name) + 2, Len(assignment))

\* os.getenv(env_var_name).split(os.pathsep) in the environment the persist
\* command of this run configured
PersistedSearchPath ==
    LET c == calls[CHOOSE i \in DOMAIN calls : calls[i].kind = "persist"]
    IN  SplitStr(AssignedValue(c.args[5], env_var_name), PathSep(platform))

\* lines 144-182 of install.py in a second run: same platform, CONDA_PREFIX
\* and filesystem, the search-path variable as the first run persisted it
ResolveAgain ==
    /\ pc = "exited"
    /\ ~interrupted
    /\ exit_code = 0
    /\ \E i \in DOMAIN calls : calls[i].kind = "persist" /\ calls[i].status = "ok"
    /\ LET value == PersistedSearchPath
           paths == LibraryPaths(platform, conda_prefix, version_info, value)
       IN  /\ search_path' = value
           /\ library_paths' = paths
           /\ valid_library_paths' = ValidLibraryPaths(paths, fs)
    /\ pc' = "resolved_again"
    /\ UNCHANGED << host, manifest, idx, calls, env_var_name, fs,
                    stdout, stderr, exit_code, interrupted >>

NextRerun ==
    \/ Next
    \/ ResolveAgain

SpecRerun == Init /\ [][NextRerun]_vars

(* C19: resolving again with the search-path variable holding what the     *)
(* previous resolution persisted (same filesystem, platform and            *)
(* CONDA_PREFIX) reads back the list that was persisted and produces       *)
(* exactly that list again: same paths, same order, nothing added.         *)
C19_ResolutionIdempotent ==
    [][ResolveAgain =>
          /\ search_path' = valid_library_paths
          /\ valid_library_paths' = valid_library_paths]_vars

\* a list of three paths was persisted and resolved again
C19_Witness ==
    /\ pc = "resolved_again"
    /\ Len(valid_library_paths) = 3
    /\ Len(library_paths) > 3

-----------------------------------------------------------------------------
(* install.py against installer.py.                                        *)

\* a command without what the comparison ignores: the reinstall flag and,
\* for the runtime package, the version after '=='
Normalised(c) ==
    [ tool   |-> c.tool,
      target |-> IF c.tool = "conda" THEN c.args[5]
                 ELSE IF c.kind = "runtime" THEN SplitStr(c.args[3], "=")[1]
                 ELSE c.args[3] ]

NormalisedCalls == [ i \in DOMAIN calls |-> Normalised(calls[i]) ]

\* the backends a platform offers
BackendOffered ==
    CASE choice = "default" -> TRUE
      [] choice \in {"cuda", "openvino"} -> platform \in {"linux", "windows"}
      [] choice = "directml" -> platform = "windows"
      [] choice = "rocm" -> platform = "linux"

\* the name of the runtime package of the backend
RuntimeName ==
    CASE choice = "default"  -> "onnxruntime"
      [] choice = "cuda"     -> "onnxruntime-gpu"
      [] choice = "openvino" -> "onnxruntime-openvino"
      [] choice = "directml" -> "onnxruntime-directml"
      [] choice = "rocm"     -> "onnxruntime-rocm"

\* the runtime install: the wheel URL for rocm with cp310 or cp312 in both
\* files and with cp311 in install.py only, the package name otherwise
CommonRuntimeStep ==
    LET tag == PythonTag(version_info)
        url == "https://repo.radeon.com/rocm/manylinux/rocm-rel-6.4/onnxruntime_rocm-1.21.0-"
                   \o tag \o "-" \o tag \o "-linux_x86_64.whl"
    IN  IF choice = "rocm" /\ tag \in {"cp310", "cp312"}
        THEN [ tool |-> "uv", target |-> url ]
        ELSE IF choice = "rocm" /\ tag = "cp311" /\ variant = "install"
        THEN [ tool |-> "uv", target |-> url ]
        ELSE [ tool |-> "uv", target |-> RuntimeName ]

\* the commands of a run in which no command fails, from its inputs alone:
\* the same for both files but for rocm with cp311
CommonSteps ==
    IF \/ ~BackendOffered
       \/ ~uv_on_path
       \/ ~skip_conda /\ ~has_conda
       \/ ~ManifestFound
    THEN << >>
    ELSE LET e == ExpectedSpecifiers(Len(manifest))
         IN  [ i \in DOMAIN e |-> [ tool |-> "uv", target |-> e[i] ] ]
             \o << CommonRuntimeStep >>
             \o ( IF PersistConditions /\ valid_library_paths # << >>
                  THEN << [ tool |-> "conda", target |-> ExpectedAssignment ] >>
                  ELSE << >> )
             \o ( IF choice = "directml"
                  THEN << [ tool |-> "uv", target |-> "numpy==1.26.4" ] >>
                  ELSE << >> )

(* C20: a run of install.py and a run of installer.py on the same          *)
(* platform, backend, flags, environment, manifest, search path and        *)
(* filesystem, in which no command fails, issue the same commands with the *)
(* same targets in the same order, the versions of the catalog and the     *)
(* spelling of the reinstall flag apart; the one exception is rocm with    *)
(* the ABI tag cp311, where install.py installs the wheel URL and          *)
(* installer.py the package by name.                                       *)
C20_StepEquivalentOnSuccess ==
    (EndedItself /\ AllSucceeded) =>
        /\ NormalisedCalls = CommonSteps
        /\ \A i \in DOMAIN calls :
               calls[i].tool = "uv" =>
                   calls[i].args[4] \in {"--reinstall", "--force-reinstall"}

\* installer.py completed a cuda run: generic install, runtime, persist
C20_Witness ==
    /\ variant = "installer"
    /\ Completed
    /\ AllSucceeded
    /\ \A n \in {1, 2, 3} : CallsOfPhase(n) # {}

-----------------------------------------------------------------------------
(* installer.py: installs that fail.                                       *)

\* the run got past the checks and opened requirements.txt
ReachedInstalls ==
    /\ BackendOffered
    /\ uv_on_path
    /\ skip_conda \/ has_conda
    /\ ManifestFound

\* a failed install does not end the run: what installer.py issues does not
\* depend on the status of any command, and the run ends with the
\* completion message and exit code 0
FailureDoesNotStop ==
    /\ \A i \in FailedCalls : Exited => (interrupted \/ Completed)
    /\ (EndedItself /\ ReachedInstalls) =>
           /\ NormalisedCalls = CommonSteps
           /\ Completed
           /\ exit_code = 0
    /\ EndedItself => (Completed <=> exit_code = 0)

(* C21 as stated (installer.py): a failing install does not stop the run,  *)
(* and a run that ends by itself without the completion message ended on   *)
(* the missing tool, the inactive environment or the missing manifest.     *)
C21_Original ==
    variant = "installer" =>
        /\ FailureDoesNotStop
        /\ (EndedItself /\ ~Completed) =>
               FatalCondition \in {"ToolNotFound", "EnvironmentNotActive",
                                   "ManifestNotFound"}

(* C21, amended (installer.py): a failing generic, runtime or numpy-pin     *)
(* install does not stop the run: every remaining manifest line and every  *)
(* later step is still issued and the run ends with the completion message *)
(* and exit code 0.  The fatal conditions of this file are the backend     *)
(* choice the argument parser refuses (exit code 2), and the missing tool, *)
(* the inactive environment and the missing manifest (exit code 1).        *)
C21_InstallFailureNotFatal ==
    variant = "installer" =>
        /\ FailureDoesNotStop
        /\ (EndedItself /\ ~Completed) =>
               \/ /\ FatalCondition = "UnsupportedBackendForPlatform"
                  /\ exit_code = 2
                  /\ ~BackendOffered
               \/ /\ FatalCondition \in {"ToolNotFound", "EnvironmentNotActive",
                                         "ManifestNotFound"}
                  /\ exit_code = 1

\* installer.py: the first manifest install failed, the second manifest line
\* and the runtime were still installed and the run completed
C21_Witness ==
    /\ variant = "installer"
    /\ Len(calls) = 3
    /\ calls[1].kind = "generic" /\ calls[1].status = "failed"
    /\ calls[2].kind = "generic"
    /\ calls[3].status = "failed"
    /\ Completed
    /\ exit_code = 0

====
